---- MODULE Spec2Model ----
(***************************************************************************)
(* State-machine model of the SkillStream request handlers (core/views.py) *)
(* over the persistent store declared in core/models.py.  Every handler is *)
(* split at its database accesses: one action per query or write, so that  *)
(* requests served by different workers can interleave between them.       *)
(***************************************************************************)
EXTENDS Integers, Sequences, FiniteSets, TLC

(* ------------------------------ bounds -------------------------------- *)
MaxVideos == 2
MaxWatches == 3
MaxSubs == 2
MaxRows == 2
MaxUsers == 3
MaxCatalog == 22

\* Registered, logged-in users and the server's worker processes.
Users == {1, 2}
Procs == {1, 2}
VideoIds == 1..MaxVideos

(* ------------------------------ text ---------------------------------- *)
\* Text is a tuple of one-character strings.
EmptyText == << >>

Lower(c) == CASE c = "A" -> "a" [] c = "B" -> "b" [] c = "U" -> "u" [] OTHER -> c

IsWord(c) == c \in {"a", "b", "u", "A", "B", "U", "1", "2", "3", "_"}

IsSep(c) == c \in {" ", "-"}

RECURSIVE KeepSlugChars(_)
\* re.sub(r'[^\w\s-]', '', value.lower())
KeepSlugChars(t) ==
    IF t = EmptyText THEN EmptyText
    ELSE LET c == Lower(Head(t))
         IN  IF IsWord(c) \/ IsSep(c)
             THEN <<c>> \o KeepSlugChars(Tail(t))
             ELSE KeepSlugChars(Tail(t))

RECURSIVE SquashSeps(_)
\* re.sub(r'[-\s]+', '-', value)
SquashSeps(t) ==
    IF t = EmptyText THEN EmptyText
    ELSE IF IsSep(Head(t))
         THEN IF Tail(t) # EmptyText /\ IsSep(Head(Tail(t)))
              THEN SquashSeps(Tail(t))
              ELSE <<"-">> \o SquashSeps(Tail(t))
         ELSE <<Head(t)>> \o SquashSeps(Tail(t))

RECURSIVE StripLeft(_)
StripLeft(t) ==
    IF t # EmptyText /\ Head(t) \in {"-", "_"} THEN StripLeft(Tail(t)) ELSE t

RECURSIVE StripRight(_)
StripRight(t) ==
    IF t # EmptyText /\ t[Len(t)] \in {"-", "_"}
    THEN StripRight(SubSeq(t, 1, Len(t) - 1))
    ELSE t

\* django.utils.text.slugify as called by Video.save
Slugify(t) == StripRight(StripLeft(SquashSeps(KeepSlugChars(t))))

Digit(n) == CASE n = 0 -> "0" [] n = 1 -> "1" [] n = 2 -> "2" [] n = 3 -> "3"
              [] n = 4 -> "4" [] n = 5 -> "5" [] n = 6 -> "6" [] n = 7 -> "7"
              [] n = 8 -> "8" [] n = 9 -> "9"

RECURSIVE Decimal(_)
\* str(counter) inside the f-string of Video.save
Decimal(n) == IF n < 10 THEN <<Digit(n)>> ELSE Decimal(n \div 10) \o <<Digit(n % 10)>>

SuffixedFromZero(slug, n) == slug \o <<"-">> \o Decimal(n - 1)

\* f"{original_slug}-{counter}"
Suffixed(slug, n) == slug \o <<"-">> \o Decimal(n)

\* SQL LIKE '%needle%' with case folding (the icontains lookup)
IContains(hay, needle) ==
    \E i \in 0..(Len(hay) - Len(needle)) :
        \A j \in 1..Len(needle) : Lower(hay[i + j]) = Lower(needle[j])

\* forms.CharField strips surrounding whitespace before the validators run
RECURSIVE StripSpacesLeft(_)
StripSpacesLeft(t) ==
    IF t # EmptyText /\ Head(t) = " " THEN StripSpacesLeft(Tail(t)) ELSE t

RECURSIVE StripSpacesRight(_)
StripSpacesRight(t) ==
    IF t # EmptyText /\ t[Len(t)] = " "
    THEN StripSpacesRight(SubSeq(t, 1, Len(t) - 1))
    ELSE t

StripSpaces(t) == StripSpacesRight(StripSpacesLeft(t))

TitleMinLength == 3
TitleMaxLength == 200
DescriptionMinLength == 10

\* Video.title: CharField(max_length=200, validators=[MinLengthValidator(3)])
TitleValid(t) == Len(t) >= TitleMinLength /\ Len(t) <= TitleMaxLength

(* ------------------------------ store --------------------------------- *)
VARIABLES
    is_creator,     \* CustomerUser.is_creator, per user
    videos,         \* Video rows
    nextVideoId,    \* the Video table's AUTOINCREMENT sequence
    likes,          \* rows of the Video.likes through table: <<video id, user>>
    comments,       \* Comment rows
    subs,           \* ChannelSubscription rows
    nextSubId,      \* the ChannelSubscription table's AUTOINCREMENT sequence
    nextCommentId,  \* the Comment table's AUTOINCREMENT sequence
    legacy,         \* subsciption (legacy enrolment) rows
    accounts,       \* CustomerUser rows: id, username, password, is_student
    nextUserId,     \* the CustomerUser table's AUTOINCREMENT sequence
    session,        \* per browser session: the authenticated user's id, or 0
    req,            \* per worker: the request it is serving and its locals
    watched,        \* history: completed watch_video requests per video id
    lastLike        \* history: the latest completed like_video and likes before it

vars == <<is_creator, videos, nextVideoId, likes, comments, nextCommentId, subs,
          nextSubId, legacy, accounts, nextUserId, session, req, watched, lastLike>>

store == <<is_creator, videos, nextVideoId, likes, comments, nextCommentId, subs,
           nextSubId, legacy, accounts, nextUserId>>

NoRow == [id |-> 0, creator |-> 0, title |-> EmptyText, slug |-> EmptyText,
          description |-> EmptyText, views |-> 0, uploaded_at |-> 0]

NoLike == [op |-> "none", user |-> 0, vid |-> 0, before |-> {}]

\* The JSON body of a response that has none.
NoBody == [success |-> FALSE]

Idle(out) == [pc |-> "idle", op |-> "none", user |-> 0, vid |-> 0, row |-> NoRow,
              sub |-> 0, counter |-> 0, orig |-> EmptyText, liked |-> FALSE,
              promote |-> FALSE, out |-> out, results |-> << >>,
              secret |-> EmptyText, body |-> NoBody]

VideoById(id) == CHOOSE v \in videos : v.id = id

VideoExists(id) == \E v \in videos : v.id = id

\* Video.objects.filter(slug=s).exists()
SlugExists(s) == \E v \in videos : v.slug = s

\* ChannelSubscription.objects.filter(subscriber=s, creator=c).first()
FirstSub(s, c) ==
    LET m == {r \in subs : r.subscriber = s /\ r.creator = c}
    IN  IF m = {} THEN 0
        ELSE (CHOOSE r \in m : \A o \in m : r.id >= o.id).id

\* Browser sessions (cookie jars) that send requests.
Sessions == {1, 2}

\* AbstractUser.username of the accounts that exist from the start
Username(u) == <<"u", Digit(u)>>

Password(u) == <<"p", Digit(u)>>

\* The accounts registered before the first request.
Registered ==
    { [id |-> u, username |-> Username(u), password |-> Password(u),
       is_student |-> TRUE] : u \in Users }

Init ==
    /\ is_creator = [u \in Users |-> FALSE]
    /\ videos = {}
    /\ nextVideoId = 1
    /\ likes = {}
    /\ comments = {}
    /\ nextCommentId = 1
    /\ subs = {}
    /\ nextSubId = 1
    /\ legacy = {}
    /\ accounts = Registered
    /\ nextUserId = Cardinality(Users) + 1
    /\ session = [s \in Sessions |-> 0]
    /\ req = [p \in Procs |-> Idle("none")]
    /\ watched = [v \in VideoIds |-> 0]
    /\ lastLike = NoLike

\* The response that ends a request: the name of the rendered template (200),
\* "redirect" (302, with a success message or none), "denied" and
\* "self_subscription" (302 with that error message), "404", "500" (an
\* unhandled exception).
Finish(p, out) == req' = [req EXCEPT ![p] = Idle(out)]

IsIdle(p) == req[p].pc = "idle"

\* Requests of one handler being served now; the id sequences are capped by
\* counting them with the rows already inserted.
InFlight(op) == Cardinality({q \in Procs : req[q].op = op})

\* Rows of the tables that hang off users and videos, and the requests being
\* served that may add one.
Rows == Cardinality(likes) + Cardinality(comments) + Cardinality(legacy)
          + Cardinality(subs)

\* A request that can only remove a row is served at the caps too, when no
\* other request is being served.
AllIdle == \A q \in Procs : IsIdle(q)

HasRoom == Rows + InFlight("like") + InFlight("comment") + InFlight("subscribe")
              < MaxRows

(* --------------------------- Video.save -------------------------------- *)
\* "if not self.slug": the row enters the slug loop with slugify(title),
\* otherwise it goes straight to the write.
SaveBegin(p, op, u, row, promote) ==
    req' = [req EXCEPT ![p] =
              [Idle("none") EXCEPT
                 !.op = op, !.user = u, !.vid = row.id, !.promote = promote,
                 !.pc = IF row.slug = EmptyText THEN "save_check" ELSE "save_write",
                 !.row = IF row.slug = EmptyText
                         THEN [row EXCEPT !.slug = Slugify(row.title)]
                         ELSE row,
                 !.orig = IF row.slug = EmptyText THEN Slugify(row.title) ELSE EmptyText,
                 !.counter = IF row.slug = EmptyText THEN 1 ELSE 0]]

\* One evaluation of "while Video.objects.filter(slug=self.slug).exists()".
SaveCheck(p) ==
    /\ req[p].pc = "save_check"
    /\ IF SlugExists(req[p].row.slug)
       THEN req' = [req EXCEPT
                      ![p].row.slug = Suffixed(req[p].orig, req[p].counter),
                      ![p].counter = req[p].counter + 1]
       ELSE req' = [req EXCEPT ![p].pc = "save_write"]
    /\ UNCHANGED <<store, session, watched, lastLike>>

\* timezone.now() of an INSERT: later than the stamp of every stored row.
Now ==
    IF videos = {} THEN 1
    ELSE 1 + (CHOOSE t \in {v.uploaded_at : v \in videos} :
                 \A v \in videos : t >= v.uploaded_at)

SavedCountingStored(row) ==
    IF \E v \in videos : v.id = row.id
    THEN {v \in videos : v.id # row.id}
            \cup {[row EXCEPT !.views = (CHOOSE v \in videos : v.id = row.id).views + 1]}
    ELSE videos \cup {[row EXCEPT !.uploaded_at = Now]}

InsertedForFirstUser(row) ==
    [row EXCEPT !.id = nextVideoId, !.uploaded_at = Now, !.creator = 1]

\* super().save() of a new instance: INSERT, the id drawn from the sequence,
\* uploaded_at (auto_now_add) stamped.
Inserted(row) == [row EXCEPT !.id = nextVideoId, !.uploaded_at = Now]

\* super().save() of a loaded instance: UPDATE by primary key of every
\* column; when no row matched, Model.save falls back to INSERT with that
\* key, and auto_now_add stamps uploaded_at again.
Saved(row) ==
    IF \E v \in videos : v.id = row.id
    THEN {v \in videos : v.id # row.id} \cup {row}
    ELSE videos \cup {[row EXCEPT !.uploaded_at = Now]}

(* --------------------------- upload_video ------------------------------ *)
UploadFormValid(title, description) ==
    /\ TitleValid(StripSpaces(title))
    /\ Len(description) >= DescriptionMinLength

StartUpload(p, u, title, description) ==
    /\ IsIdle(p)
    /\ nextVideoId + InFlight("upload") <= MaxVideos
    /\ IF UploadFormValid(title, description)
       THEN SaveBegin(p, "upload", u,
                      [NoRow EXCEPT !.creator = u, !.title = StripSpaces(title),
                                    !.description = description],
                      ~ is_creator[u])
       ELSE Finish(p, "upload_video.html")
    /\ UNCHANGED <<store, session, watched, lastLike>>

UploadInsert(p) ==
    /\ req[p].pc = "save_write"
    /\ req[p].op = "upload"
    /\ videos' = videos \cup {Inserted(req[p].row)}
    /\ nextVideoId' = nextVideoId + 1
    /\ IF req[p].promote
       THEN req' = [req EXCEPT ![p].pc = "promote", ![p].vid = nextVideoId]
       ELSE Finish(p, "redirect")
    /\ UNCHANGED <<is_creator, likes, comments, nextCommentId, subs, nextSubId, legacy,
                   accounts, nextUserId, session, watched, lastLike>>

\* request.user.is_creator = True; request.user.save()
UploadPromote(p) ==
    /\ req[p].pc = "promote"
    /\ is_creator' = [is_creator EXCEPT ![req[p].user] = TRUE]
    /\ Finish(p, "redirect")
    /\ UNCHANGED <<videos, nextVideoId, likes, comments, nextCommentId, subs, nextSubId, legacy,
                   accounts, nextUserId, session, watched, lastLike>>

(* --------------------------- watch_video ------------------------------- *)
ViewsAfterWatchTwice(views) == views + 2

\* video.views += 1
ViewsAfterWatch(views) == views + 1

WatchingNow(id) == {q \in Procs : req[q].op = "watch" /\ req[q].vid = id}

StartWatch(p, u, id) ==
    /\ IsIdle(p)
    /\ IF VideoExists(id)
       THEN /\ watched[id] + Cardinality(WatchingNow(id)) < MaxWatches
            /\ SaveBegin(p, "watch", u,
                    [VideoById(id) EXCEPT !.views = ViewsAfterWatch(VideoById(id).views)],
                    FALSE)
       ELSE Finish(p, "404")
    /\ UNCHANGED <<store, session, watched, lastLike>>

WatchSave(p) ==
    /\ req[p].pc = "save_write"
    /\ req[p].op = "watch"
    /\ videos' = Saved(req[p].row)
    /\ watched' = [watched EXCEPT ![req[p].vid] = watched[req[p].vid] + 1]
    /\ Finish(p, "watch_video.html")
    /\ UNCHANGED <<is_creator, nextVideoId, likes, comments, nextCommentId, subs, nextSubId, legacy,
                   accounts, nextUserId, session, lastLike>>

(* --------------------------- delete_video ------------------------------ *)
MayDeleteAnyone(u, row) == TRUE

\* if request.user == video.creator
MayDelete(u, row) == u = row.creator

CommentsKept(id) == comments

\* Comment.video: on_delete=CASCADE
CommentsAfterDelete(id) == {c \in comments : c.video # id}

LikesKept(id) == likes

\* the Video.likes through table cascades with the video
LikesAfterDelete(id) == {l \in likes : l[1] # id}

\* subsciption.video: on_delete=CASCADE
LegacyAfterDelete(id) == {e \in legacy : e.video # id}

StartDelete(p, u, id) ==
    /\ IsIdle(p)
    /\ IF ~ VideoExists(id) THEN Finish(p, "404")
       ELSE IF MayDelete(u, VideoById(id))
            THEN req' = [req EXCEPT ![p] =
                           [Idle("none") EXCEPT !.pc = "delete", !.op = "delete",
                                                !.user = u, !.vid = id,
                                                !.row = VideoById(id)]]
            ELSE Finish(p, "denied")
    /\ UNCHANGED <<store, session, watched, lastLike>>

\* video.delete(): the collector removes the row and its dependants in one
\* transaction.
DeleteApply(p) ==
    /\ req[p].pc = "delete"
    /\ videos' = {v \in videos : v.id # req[p].vid}
    /\ comments' = CommentsAfterDelete(req[p].vid)
    /\ likes' = LikesAfterDelete(req[p].vid)
    /\ legacy' = LegacyAfterDelete(req[p].vid)
    /\ lastLike' = NoLike
    /\ Finish(p, "redirect")
    /\ UNCHANGED <<is_creator, nextVideoId, nextCommentId, subs, nextSubId,
                   accounts, nextUserId, session, watched>>

(* --------------------------- user_comment ------------------------------ *)
CommentMaxLength == 1000

CommentFormAnything(content) == TRUE

\* CommentForm: content is a text of content.len characters, content.pad of
\* them whitespace around the rest.  The field strips it, requires that
\* something is left, and the TextField(max_length=1000) limits what is left.
CommentFormValid(content) ==
    /\ content.len - content.pad > 0
    /\ content.len - content.pad <= CommentMaxLength

StartComment(p, u, id, method, content) ==
    /\ IsIdle(p)
    /\ HasRoom
    /\ IF ~ VideoExists(id) THEN Finish(p, "404")
       ELSE IF method = "POST" /\ CommentFormValid(content)
            THEN req' = [req EXCEPT ![p] =
                           [Idle("none") EXCEPT !.pc = "comment", !.op = "comment",
                                                !.user = u, !.vid = id]]
            ELSE Finish(p, "redirect")
    /\ UNCHANGED <<store, session, watched, lastLike>>

\* comment.save(): INSERT; the foreign key to the video is checked by the store.
CommentSave(p) ==
    /\ req[p].pc = "comment"
    /\ IF VideoExists(req[p].vid)
       THEN /\ comments' = comments \cup
                  {[id |-> nextCommentId, video |-> req[p].vid, user |-> req[p].user]}
            /\ nextCommentId' = nextCommentId + 1
            /\ Finish(p, "redirect")
       ELSE /\ UNCHANGED <<comments, nextCommentId>>
            /\ Finish(p, "500")
    /\ UNCHANGED <<is_creator, videos, nextVideoId, likes, subs, nextSubId, legacy,
                   accounts, nextUserId, session, watched, lastLike>>

(* ------------------------- toggle_subscription ------------------------- *)
SelfSubscriptionAllowed(u, creator) == FALSE

\* if request.user == creator
SelfSubscription(u, creator) == u = creator

StartSub(p, u, id) ==
    /\ IsIdle(p)
    /\ \/ nextSubId + InFlight("subscribe") <= MaxSubs /\ HasRoom
       \/ AllIdle /\ VideoExists(id) /\ FirstSub(u, VideoById(id).creator) # 0
    /\ IF VideoExists(id)
       THEN req' = [req EXCEPT ![p] =
                      [Idle("none") EXCEPT !.pc = "sub_query", !.op = "subscribe",
                                           !.user = u, !.vid = id,
                                           !.row = VideoById(id)]]
       ELSE Finish(p, "404")
    /\ UNCHANGED <<store, session, watched, lastLike>>

\* The existence query, then the self-subscription guard.
SubQuery(p) ==
    /\ req[p].pc = "sub_query"
    /\ IF SelfSubscription(req[p].user, req[p].row.creator)
       THEN Finish(p, "self_subscription")
       ELSE req' = [req EXCEPT ![p].pc = "sub_apply",
                               ![p].sub = FirstSub(req[p].user, req[p].row.creator)]
    /\ UNCHANGED <<store, session, watched, lastLike>>

SubsAfterDeleteInvolving(id) ==
    {r \in subs : \A d \in subs :
        d.id = id => (r.subscriber # d.subscriber /\ r.creator # d.subscriber)}

SubsAfterDeleteNothing(id) == subs

\* subscription.delete(): DELETE by primary key
SubsAfterDelete(id) == {r \in subs : r.id # id}

SubUniqueUnchecked(s, c) == TRUE

\* unique_together = ('subscriber', 'creator')
SubUniqueOk(s, c) == ~ \E r \in subs : r.subscriber = s /\ r.creator = c

SubWrite(p) ==
    /\ req[p].pc = "sub_apply"
    /\ IF req[p].sub # 0
       THEN /\ subs' = SubsAfterDelete(req[p].sub)
            /\ UNCHANGED nextSubId
            /\ Finish(p, "redirect")
       ELSE IF SubUniqueOk(req[p].user, req[p].row.creator)
            THEN /\ subs' = subs \cup {[id |-> nextSubId, subscriber |-> req[p].user,
                                         creator |-> req[p].row.creator]}
                 /\ nextSubId' = nextSubId + 1
                 /\ Finish(p, "redirect")
            ELSE /\ UNCHANGED <<subs, nextSubId>>
                 /\ Finish(p, "500")
    /\ UNCHANGED <<is_creator, videos, nextVideoId, likes, comments, nextCommentId,
                   legacy, accounts, nextUserId, session, watched>>

SubApply(p) == SubWrite(p) /\ UNCHANGED lastLike

\* The (subscriber, creator) pairs that have a ChannelSubscription row.
SubPairs == {<<r.subscriber, r.creator>> : r \in subs}

\* The same step, recording the request and the pairs it found.
SubApplyRecorded(p) ==
    /\ SubWrite(p)
    /\ lastLike' = [op |-> "subscribe", user |-> req[p].user, vid |-> req[p].vid,
                    before |-> SubPairs]

(* ------------------------------ like_video ----------------------------- *)
StartLike(p, u, id) ==
    /\ IsIdle(p)
    /\ HasRoom \/ (AllIdle /\ <<id, u>> \in likes)
    /\ IF VideoExists(id)
       THEN req' = [req EXCEPT ![p] =
                      [Idle("none") EXCEPT !.pc = "like_query", !.op = "like",
                                           !.user = u, !.vid = id]]
       ELSE Finish(p, "404")
    /\ UNCHANGED <<store, session, watched, lastLike>>

\* request.user in video.likes.all()
LikeQuery(p) ==
    /\ req[p].pc = "like_query"
    /\ req' = [req EXCEPT ![p].pc = "like_apply",
                          ![p].liked = (<<req[p].vid, req[p].user>> \in likes)]
    /\ UNCHANGED <<store, session, watched, lastLike>>

LikesAfterClearing(liked, id, u) ==
    IF liked THEN {l \in likes : l[1] # id} ELSE likes \cup {<<id, u>>}

LikesAfterAlwaysAdd(liked, id, u) == likes \cup {<<id, u>>}

\* video.likes.remove(user) / video.likes.add(user)
LikesAfter(liked, id, u) ==
    IF liked THEN likes \ {<<id, u>>} ELSE likes \cup {<<id, u>>}

LikeWrite(p) ==
    /\ req[p].pc = "like_apply"
    /\ IF ~ req[p].liked /\ ~ VideoExists(req[p].vid)
       THEN /\ UNCHANGED likes
            /\ Finish(p, "500")
       ELSE /\ likes' = LikesAfter(req[p].liked, req[p].vid, req[p].user)
            /\ Finish(p, "redirect")
    /\ UNCHANGED <<is_creator, videos, nextVideoId, comments, nextCommentId, subs,
                   nextSubId, legacy, accounts, nextUserId, session, watched>>

LikeApply(p) == LikeWrite(p) /\ UNCHANGED lastLike

\* The same step, recording the request and the likes it found.
LikeApplyRecorded(p) ==
    /\ LikeWrite(p)
    /\ lastLike' = [op |-> "like", user |-> req[p].user, vid |-> req[p].vid,
                    before |-> likes]

(* ----------------------------- search_videos --------------------------- *)
MatchesTitleOnly(v, q) == IContains(v.title, q)

\* Q(title__icontains=q) | Q(description__icontains=q) |
\* Q(creator__username__icontains=q)
Matches(v, q) ==
    \/ IContains(v.title, q)
    \/ IContains(v.description, q)
    \/ IContains(Username(v.creator), q)

RECURSIVE NewestFirst(_)
\* order_by('-uploaded_at'): the ids of the rows, latest stamp first
NewestFirst(rows) ==
    IF rows = {} THEN << >>
    ELSE LET m == CHOOSE v \in rows : \A w \in rows : v.uploaded_at >= w.uploaded_at
         IN  <<m.id>> \o NewestFirst(rows \ {m})

NoParam == <<"None">>

\* q = request.GET.get('q') or ''
SearchTerm(q) == IF q = NoParam \/ q = EmptyText THEN EmptyText ELSE q

\* 'results_count': videos.count()
StartSearch(p, u, param) ==
    /\ IsIdle(p)
    /\ req' = [req EXCEPT ![p] =
                  [Idle("none") EXCEPT
                     !.pc = "search_render", !.op = "search", !.user = u,
                     !.orig = SearchTerm(param),
                     !.counter = Cardinality({v \in videos :
                                                Matches(v, SearchTerm(param))})]]
    /\ UNCHANGED <<store, session, watched, lastLike>>

\* The template iterates the queryset: the SELECT runs while rendering.
SearchRender(p) ==
    /\ req[p].pc = "search_render"
    /\ req' = [req EXCEPT ![p] =
                  [Idle("search_results.html") EXCEPT
                     !.orig = req[p].orig, !.counter = req[p].counter,
                     !.results = NewestFirst({w \in videos :
                                                Matches(w, req[p].orig)})]]
    /\ UNCHANGED <<store, session, watched, lastLike>>

(* ------------------------------- admin --------------------------------- *)
\* LegacySubscriptionAdmin: the only writer of legacy enrolment rows.
AdminEnroll(u, id) ==
    /\ VideoExists(id)
    /\ HasRoom
    /\ legacy' = legacy \cup {[learner |-> u, video |-> id]}
    /\ UNCHANGED <<is_creator, videos, nextVideoId, likes, comments, nextCommentId,
                   subs, nextSubId, accounts, nextUserId, session, req, watched,
                   lastLike>>

(* ------------------------------ accounts ------------------------------- *)
AccountById(u) == CHOOSE a \in accounts : a.id = u

\* str.lower() of a text
LowerText(t) == [j \in 1..Len(t) |-> Lower(t[j])]

RegisterFormUnchecked(name, pw1, pw2) == TRUE

\* CustomerCreationForm.is_valid(): UserCreationForm refuses a username that an
\* account already has in any letter case, and two passwords that differ.
RegisterFormValid(name, pw1, pw2) ==
    /\ ~ \E a \in accounts : LowerText(a.username) = LowerText(name)
    /\ pw1 = pw2

StartRegister(p, s, method, name, pw1, pw2) ==
    /\ IsIdle(p)
    /\ nextUserId + InFlight("register") <= MaxUsers
    /\ IF method = "POST" /\ RegisterFormValid(name, pw1, pw2)
       THEN req' = [req EXCEPT ![p] =
                      [Idle("none") EXCEPT !.pc = "register_save", !.op = "register",
                                           !.orig = name, !.secret = pw1]]
       ELSE Finish(p, "register.html")
    /\ UNCHANGED <<store, session, watched, lastLike>>

\* form.save(): INSERT of the CustomerUser row with the model's defaults
\* (is_creator False, is_student True); username is unique in the table.
RegisterSave(p) ==
    /\ req[p].pc = "register_save"
    /\ IF \E a \in accounts : a.username = req[p].orig
       THEN /\ UNCHANGED <<accounts, nextUserId, is_creator>>
            /\ Finish(p, "500")
       ELSE /\ accounts' = accounts \cup
                  {[id |-> nextUserId, username |-> req[p].orig,
                    password |-> req[p].secret, is_student |-> TRUE]}
            /\ nextUserId' = nextUserId + 1
            /\ is_creator' = is_creator @@ (nextUserId :> FALSE)
            /\ Finish(p, "redirect_login")
    /\ UNCHANGED <<videos, nextVideoId, likes, comments, nextCommentId, subs,
                   nextSubId, legacy, session, watched, lastLike>>

AuthenticateAnyPassword(name, pw) ==
    IF \E a \in accounts : a.username = name
    THEN (CHOOSE a \in accounts : a.username = name).id
    ELSE 0

\* authenticate(username=..., password=...): the id of the account with that
\* username and password, or 0 (None)
Authenticate(name, pw) ==
    IF \E a \in accounts : a.username = name /\ a.password = pw
    THEN (CHOOSE a \in accounts : a.username = name /\ a.password = pw).id
    ELSE 0

\* user_login: the username is lowercased before authenticate(); a failure
\* renders the login page with the one error message.
UserLogin(p, s, method, name, pw) ==
    /\ IsIdle(p)
    /\ IF method = "POST"
       THEN IF Authenticate(LowerText(name), pw) # 0
            THEN /\ session' = [session EXCEPT ![s] = Authenticate(LowerText(name), pw)]
                 /\ Finish(p, "redirect_dashboard")
            ELSE /\ UNCHANGED session
                 /\ Finish(p, "login.html:incorrect")
       ELSE /\ UNCHANGED session
            /\ Finish(p, "login.html")
    /\ UNCHANGED <<store, watched, lastLike>>

\* logout(request); redirect('login')
UserLogout(p, s) ==
    /\ IsIdle(p)
    /\ session' = [session EXCEPT ![s] = 0]
    /\ Finish(p, "redirect_login")
    /\ UNCHANGED <<store, watched, lastLike>>

LoginRequiredForbids(p, s, view) ==
    IF session[s] # 0
    THEN view
    ELSE /\ IsIdle(p)
         /\ Finish(p, "403")
         /\ UNCHANGED <<store, session, watched, lastLike>>

\* @login_required: the view runs for an authenticated session; any other
\* request is redirected to the login page.
LoginRequired(p, s, view) ==
    IF session[s] # 0
    THEN view
    ELSE /\ IsIdle(p)
         /\ Finish(p, "redirect_login?next")
         /\ UNCHANGED <<store, session, watched, lastLike>>

(* -------------------------------- API ---------------------------------- *)
ApiPageSize == 20

TakeAll(rows, n) == rows

\* queryset[:n]
Take(rows, n) == SubSeq(rows, 1, IF Len(rows) < n THEN Len(rows) ELSE n)

\* api_videos_list: Video.objects.all() in Meta.ordering, sliced
ApiVideosList(p) ==
    /\ IsIdle(p)
    /\ LET page == Take(NewestFirst(videos), ApiPageSize)
       IN  req' = [req EXCEPT ![p] =
                     [Idle("api_videos_list:200") EXCEPT
                        !.results = page,
                        !.body = [success |-> TRUE, count |-> Len(page)]]]
    /\ UNCHANGED <<store, session, watched, lastLike>>

TotalLikesAnyVideo(id) == Cardinality(likes)

\* Video.total_likes(): self.likes.count()
TotalLikes(id) == Cardinality({l \in likes : l[1] = id})

ApiVideoDetailCounting(p, id) ==
    /\ IsIdle(p)
    /\ VideoExists(id)
    /\ videos' = {v \in videos : v.id # id}
                    \cup {[VideoById(id) EXCEPT !.views = VideoById(id).views + 1]}
    /\ req' = [req EXCEPT ![p] =
                  [Idle("api_video_detail:200") EXCEPT
                     !.body = [success |-> TRUE, id |-> id,
                               views |-> VideoById(id).views + 1]]]
    /\ UNCHANGED <<is_creator, nextVideoId, likes, comments, nextCommentId, subs,
                   nextSubId, legacy, accounts, nextUserId, session, watched, lastLike>>

\* api_video_detail: Video.objects.get(id=video_id), or Video.DoesNotExist
ApiVideoDetail(p, id) ==
    /\ IsIdle(p)
    /\ IF VideoExists(id)
       THEN LET video == VideoById(id)
            IN  req' = [req EXCEPT ![p] =
                   [Idle("api_video_detail:200") EXCEPT
                      !.body = [success |-> TRUE,
                                id |-> video.id,
                                title |-> video.title,
                                description |-> video.description,
                                creator |-> [id |-> video.creator,
                                             username |-> AccountById(video.creator).username,
                                             is_creator |-> is_creator[video.creator]],
                                views |-> video.views,
                                likes |-> TotalLikes(video.id)]]]
       ELSE req' = [req EXCEPT ![p] =
                      [Idle("api_video_detail:404") EXCEPT
                         !.body = [success |-> FALSE, error |-> "Video not found"]]]
    /\ UNCHANGED <<store, session, watched, lastLike>>

CountRows(rows) == Cardinality(rows)

RECURSIVE SumViews(_)
\* sum(video.views for video in uploaded_videos)
SumViews(rows) ==
    IF rows = {} THEN 0
    ELSE LET v == CHOOSE w \in rows : TRUE
         IN  v.views + SumViews(rows \ {v})

\* api_user_stats
ApiUserStats(p, u) ==
    /\ IsIdle(p)
    /\ LET uploaded_videos == {v \in videos : v.creator = u}
           user_stats ==
             [username |-> AccountById(u).username,
              is_creator |-> is_creator[u],
              uploaded_videos_count |-> Cardinality(uploaded_videos),
              total_views |-> SumViews(uploaded_videos),
              subscriptions_count |-> Cardinality({r \in subs : r.subscriber = u}),
              comments_count |-> Cardinality({c \in comments : c.user = u})]
       IN  req' = [req EXCEPT ![p] =
              [Idle("api_user_stats:200") EXCEPT
                 !.user = u,
                 !.body = IF is_creator[u]
                          THEN user_stats @@
                               [subscribers_count |->
                                  Cardinality({r \in subs : r.creator = u})]
                          ELSE user_stats]]
    /\ UNCHANGED <<store, session, watched, lastLike>>

(* ------------------------------ dashboards ----------------------------- *)
CreatorDashboard(p, u) ==
    /\ IsIdle(p)
    /\ Finish(p, IF is_creator[u] THEN "creator_dashboard.html"
                 ELSE "redirect_learner_dashboard")
    /\ UNCHANGED <<store, session, watched, lastLike>>

LearnerDashboard(p, u) ==
    /\ IsIdle(p)
    /\ Finish(p, IF AccountById(u).is_student THEN "learner_dashboard.html"
                 ELSE "redirect_creator_dashboard")
    /\ UNCHANGED <<store, session, watched, lastLike>>

DashboardRedirect(p, u) ==
    /\ IsIdle(p)
    /\ Finish(p, IF is_creator[u] THEN "redirect_creator_dashboard"
                 ELSE IF AccountById(u).is_student THEN "redirect_learner_dashboard"
                 ELSE "redirect_home")
    /\ UNCHANGED <<store, session, watched, lastLike>>

UserProfile(p, u) ==
    /\ IsIdle(p)
    /\ Finish(p, "user_profile.html")
    /\ UNCHANGED <<store, session, watched, lastLike>>

\* home: renders the page for any visitor
Home(p) ==
    /\ IsIdle(p)
    /\ Finish(p, "home.html")
    /\ UNCHANGED <<store, session, watched, lastLike>>

\* The responses that send the browser on to another page.
Redirects == { "redirect_dashboard", "redirect_creator_dashboard",
               "redirect_learner_dashboard", "redirect_home",
               "redirect_login", "redirect_login?next" }

InRedirect(p) == req[p].out \in Redirects

\* The browser requests the page the last response pointed to.
FollowRedirect(p, s) ==
    \/ /\ req[p].out = "redirect_dashboard"
       /\ LoginRequired(p, s, DashboardRedirect(p, session[s]))
    \/ /\ req[p].out = "redirect_creator_dashboard"
       /\ LoginRequired(p, s, CreatorDashboard(p, session[s]))
    \/ /\ req[p].out = "redirect_learner_dashboard"
       /\ LoginRequired(p, s, LearnerDashboard(p, session[s]))
    \/ /\ req[p].out = "redirect_home"
       /\ Home(p)
    \/ /\ req[p].out \in {"redirect_login", "redirect_login?next"}
       /\ UserLogin(p, s, "GET", EmptyText, EmptyText)

(* --------------------------- request inputs ---------------------------- *)
Titles == { <<"A", " ", "b">>, <<"a", "-", "b">>, <<"!", "!", "!">>, <<"a", "b">> }

GoodDescription == <<"B", "a", "s", "i", "c", " ", "d", "e", "m", "o">>

Descriptions == { GoodDescription, <<"s", "h", "o", "r", "t">> }

Queries == { NoParam, EmptyText, <<"b">>, <<"z">>, <<"-">>, <<"U", "1">> }

Contents == { [len |-> 5, pad |-> 0], [len |-> 1000, pad |-> 0],
              [len |-> 1003, pad |-> 3], [len |-> 1001, pad |-> 0],
              [len |-> 0, pad |-> 0], [len |-> 3, pad |-> 3] }

Methods == { "GET", "POST" }

\* Usernames typed into the registration and login forms: a registered one,
\* the same in capitals, and two that nobody has at the start.
Names == { <<"u", "1">>, <<"U", "1">>, <<"u", "2">>, <<"u", "3">>, <<"U", "3">> }

Passwords == { <<"p", "1">>, <<"p", "2">> }

\* A comment of five characters and an empty one.
SomeContents == { [len |-> 5, pad |-> 0], [len |-> 0, pad |-> 0] }

(* ------------------------------- specs --------------------------------- *)
OneTitle == { <<"A", " ", "b">> }

\* Uploads served by concurrent workers.
SlugNext ==
    \E p \in Procs :
        \/ \E u \in Users, t \in Titles, d \in Descriptions : StartUpload(p, u, t, d)
        \/ SaveCheck(p)
        \/ UploadInsert(p)
        \/ UploadPromote(p)

SlugSpec == Init /\ [][SlugNext]_vars

\* Uploads, views and deletions served by concurrent workers.
WatchNext ==
    \E p \in Procs :
        \/ \E u \in Users, t \in OneTitle : StartUpload(p, u, t, GoodDescription)
        \/ \E u \in Users, id \in VideoIds : StartWatch(p, u, id)
        \/ \E u \in Users, id \in VideoIds : StartDelete(p, u, id)
        \/ SaveCheck(p)
        \/ UploadInsert(p)
        \/ UploadPromote(p)
        \/ WatchSave(p)
        \/ DeleteApply(p)

WatchSpec == Init /\ [][WatchNext]_vars

\* Uploads, subscription toggles and deletions served by concurrent workers.
SubNext ==
    \E p \in Procs :
        \/ \E u \in Users, t \in OneTitle : StartUpload(p, u, t, GoodDescription)
        \/ \E u \in Users, id \in VideoIds : StartSub(p, u, id)
        \/ \E u \in Users, id \in VideoIds : StartDelete(p, u, id)
        \/ SaveCheck(p)
        \/ UploadInsert(p)
        \/ UploadPromote(p)
        \/ SubQuery(p)
        \/ SubApply(p)
        \/ DeleteApply(p)

SubSpec == Init /\ [][SubNext]_vars

\* A single worker serves one request at a time, each to completion.
Worker == 1

SeqWatchNext ==
    \/ \E u \in Users, t \in OneTitle : StartUpload(Worker, u, t, GoodDescription)
    \/ \E u \in Users, id \in VideoIds : StartWatch(Worker, u, id)
    \/ \E u \in Users, id \in VideoIds : StartDelete(Worker, u, id)
    \/ SaveCheck(Worker)
    \/ UploadInsert(Worker)
    \/ UploadPromote(Worker)
    \/ WatchSave(Worker)
    \/ DeleteApply(Worker)

SeqWatchSpec == Init /\ [][SeqWatchNext]_vars

SeqLikeNext ==
    \/ \E u \in Users, t \in OneTitle : StartUpload(Worker, u, t, GoodDescription)
    \/ \E u \in Users, id \in VideoIds : StartLike(Worker, u, id)
    \/ \E u \in Users, id \in VideoIds : StartDelete(Worker, u, id)
    \/ SaveCheck(Worker)
    \/ UploadInsert(Worker)
    \/ UploadPromote(Worker)
    \/ LikeQuery(Worker)
    \/ LikeApplyRecorded(Worker)
    \/ DeleteApply(Worker)

SeqLikeSpec == Init /\ [][SeqLikeNext]_vars

SeqSubNext ==
    \/ \E u \in Users, t \in OneTitle : StartUpload(Worker, u, t, GoodDescription)
    \/ \E u \in Users, id \in VideoIds : StartSub(Worker, u, id)
    \/ \E u \in Users, id \in VideoIds : StartDelete(Worker, u, id)
    \/ SaveCheck(Worker)
    \/ UploadInsert(Worker)
    \/ UploadPromote(Worker)
    \/ SubQuery(Worker)
    \/ SubApply(Worker)
    \/ DeleteApply(Worker)

SeqSubSpec == Init /\ [][SeqSubNext]_vars

\* The store after every user has registered and MaxVideos uploads of one
\* title have been served one after the other, by the users in turn: the
\* n-th upload finds the slugs of the earlier ones and takes the next
\* suffix, and the first upload of each user promotes them.
FixtureTitle == <<"A", " ", "b">>

FixtureCreator(id) == IF id % 2 = 1 THEN 1 ELSE 2

FixtureVideos ==
    { [id |-> id, creator |-> FixtureCreator(id), title |-> FixtureTitle,
       slug |-> IF id = 1 THEN Slugify(FixtureTitle)
                ELSE Suffixed(Slugify(FixtureTitle), id - 1),
       description |-> GoodDescription, views |-> 0, uploaded_at |-> id] :
      id \in VideoIds }

FixtureInit ==
    /\ is_creator = [u \in Users |-> \E v \in FixtureVideos : v.creator = u]
    /\ videos = FixtureVideos
    /\ nextVideoId = MaxVideos + 1
    /\ likes = {}
    /\ comments = {}
    /\ nextCommentId = 1
    /\ subs = {}
    /\ nextSubId = 1
    /\ legacy = {}
    /\ accounts = Registered
    /\ nextUserId = Cardinality(Users) + 1
    /\ session = [s \in Sessions |-> 0]
    /\ req = [p \in Procs |-> Idle("none")]
    /\ watched = [v \in VideoIds |-> 0]
    /\ lastLike = NoLike

\* Requests that address the first video.
FirstVideo == { 1 }

\* Likes, comments, enrolments, subscriptions and deletions on the uploaded
\* videos.
DeleteNext ==
    \/ \E u \in Users, id \in VideoIds : StartDelete(Worker, u, id)
    \/ \E u \in Users, id \in VideoIds, m \in {"GET", "POST"}, c \in SomeContents :
          StartComment(Worker, u, id, m, c)
    \/ \E u \in Users, id \in VideoIds : StartLike(Worker, u, id)
    \/ \E u \in Users, id \in FirstVideo : StartSub(Worker, u, id)
    \/ DeleteApply(Worker)
    \/ CommentSave(Worker)
    \/ LikeQuery(Worker)
    \/ LikeApply(Worker)
    \/ SubQuery(Worker)
    \/ SubApply(Worker)
    \/ \E u \in Users, id \in FirstVideo : AdminEnroll(u, id)

DeleteSpec == FixtureInit /\ [][DeleteNext]_vars

SearchNext ==
    \/ \E u \in Users, t \in Titles, d \in Descriptions : StartUpload(Worker, u, t, d)
    \/ \E u \in Users, q \in Queries : StartSearch(Worker, u, q)
    \/ \E u \in Users, id \in VideoIds : StartDelete(Worker, u, id)
    \/ SaveCheck(Worker)
    \/ UploadInsert(Worker)
    \/ UploadPromote(Worker)
    \/ SearchRender(Worker)
    \/ DeleteApply(Worker)

SearchSpec == Init /\ [][SearchNext]_vars

\* Uploads, likes and deletions served by concurrent workers.
UploadNext ==
    \E p \in Procs :
        \/ \E u \in Users, t \in OneTitle : StartUpload(p, u, t, GoodDescription)
        \/ \E u \in Users, id \in VideoIds : StartLike(p, u, id)
        \/ \E u \in Users, id \in VideoIds : StartDelete(p, u, id)
        \/ SaveCheck(p)
        \/ UploadInsert(p)
        \/ UploadPromote(p)
        \/ LikeQuery(p)
        \/ LikeApply(p)
        \/ DeleteApply(p)

UploadSpec == Init /\ [][UploadNext]_vars

\* Registration, login, logout and the dashboards.
AuthNext ==
    \/ \E s \in Sessions, m \in Methods, n \in Names, pw1 \in Passwords,
          pw2 \in Passwords : StartRegister(Worker, s, m, n, pw1, pw2)
    \/ RegisterSave(Worker)
    \/ \E s \in Sessions, m \in Methods, n \in Names, pw \in Passwords :
          UserLogin(Worker, s, m, n, pw)
    \/ \E s \in Sessions : UserLogout(Worker, s)
    \/ \E s \in Sessions : LoginRequired(Worker, s, CreatorDashboard(Worker, session[s]))
    \/ \E s \in Sessions : LoginRequired(Worker, s, LearnerDashboard(Worker, session[s]))
    \/ \E s \in Sessions : LoginRequired(Worker, s, DashboardRedirect(Worker, session[s]))
    \/ \E s \in Sessions : LoginRequired(Worker, s, UserProfile(Worker, session[s]))

AuthSpec == Init /\ [][AuthNext]_vars


\* Searches for one word.
OneQuery == { <<"b">> }

\* The video-detail endpoint beside uploads, views of the first video, likes
\* and deletions; requests are served one at a time.
DetailNext ==
    \/ \E u \in Users, t \in OneTitle : StartUpload(Worker, u, t, GoodDescription)
    \/ \E u \in Users, id \in FirstVideo : StartWatch(Worker, u, id)
    \/ \E u \in Users, id \in VideoIds : StartLike(Worker, u, id)
    \/ \E u \in Users, id \in VideoIds : StartDelete(Worker, u, id)
    \/ \E id \in VideoIds : ApiVideoDetail(Worker, id)
    \/ SaveCheck(Worker)
    \/ UploadInsert(Worker)
    \/ UploadPromote(Worker)
    \/ WatchSave(Worker)
    \/ LikeQuery(Worker)
    \/ LikeApply(Worker)
    \/ DeleteApply(Worker)

DetailSpec == Init /\ [][DetailNext]_vars

\* watch_video counts a view whoever asks: one viewer stands for all.
OneViewer == { 1 }

\* Views are summed over the videos of one creator: two watched videos.
TwoVideos == { 1, 2 }

\* The user-statistics endpoint beside uploads, views, and comments on and
\* subscriptions through the first video; requests are served one at a time.
StatsNext ==
    \/ \E u \in Users, t \in OneTitle : StartUpload(Worker, u, t, GoodDescription)
    \/ \E u \in OneViewer, id \in TwoVideos : StartWatch(Worker, u, id)
    \/ \E u \in Users, id \in FirstVideo, c \in SomeContents :
          StartComment(Worker, u, id, "POST", c)
    \/ \E u \in Users, id \in FirstVideo : StartSub(Worker, u, id)
    \/ \E u \in Users : ApiUserStats(Worker, u)
    \/ SaveCheck(Worker)
    \/ UploadInsert(Worker)
    \/ UploadPromote(Worker)
    \/ WatchSave(Worker)
    \/ CommentSave(Worker)
    \/ SubQuery(Worker)
    \/ SubApply(Worker)

StatsSpec == Init /\ [][StatsNext]_vars

\* The store after k uploads of one title served one after the other, by the
\* users in turn.
Catalog(k) ==
    { [id |-> id, creator |-> FixtureCreator(id), title |-> FixtureTitle,
       slug |-> IF id = 1 THEN Slugify(FixtureTitle)
                ELSE Suffixed(Slugify(FixtureTitle), id - 1),
       description |-> GoodDescription, views |-> 0, uploaded_at |-> id] :
      id \in 1..k }

CatalogInit ==
    \E k \in 0..MaxCatalog :
        /\ is_creator = [u \in Users |-> \E v \in Catalog(k) : v.creator = u]
        /\ videos = Catalog(k)
        /\ nextVideoId = k + 1
        /\ likes = {}
        /\ comments = {}
        /\ nextCommentId = 1
        /\ subs = {}
        /\ nextSubId = 1
        /\ legacy = {}
        /\ accounts = Registered
        /\ nextUserId = Cardinality(Users) + 1
        /\ session = [s \in Sessions |-> 0]
        /\ req = [p \in Procs |-> Idle("none")]
        /\ watched = [v \in VideoIds |-> 0]
        /\ lastLike = NoLike

\* The videos a deletion request addresses in a large catalog: the oldest,
\* the one at the page boundary and the newest.
PickedIds == { 1, ApiPageSize, MaxCatalog }

\* The video-list endpoint over catalogs of every size up to MaxCatalog,
\* beside deletions.
ListNext ==
    \/ ApiVideosList(Worker)
    \/ \E u \in Users, id \in PickedIds : StartDelete(Worker, u, id)
    \/ DeleteApply(Worker)

ListSpec == CatalogInit /\ [][ListNext]_vars

\* One browser session sends the requests.
Browser == 1

\* Every login-required handler behind its decorator, with login and logout;
\* requests are served one at a time.
GuardNext ==
    \/ \E u \in Users, pw \in Passwords :
          UserLogin(Worker, Browser, "POST", Username(u), pw)
    \/ UserLogout(Worker, Browser)
    \/ \E t \in OneTitle :
          LoginRequired(Worker, Browser,
                        StartUpload(Worker, session[Browser], t, GoodDescription))
    \/ \E id \in FirstVideo :
          LoginRequired(Worker, Browser, StartWatch(Worker, session[Browser], id))
    \/ \E q \in OneQuery :
          LoginRequired(Worker, Browser, StartSearch(Worker, session[Browser], q))
    \/ \E id \in FirstVideo :
          LoginRequired(Worker, Browser, StartDelete(Worker, session[Browser], id))
    \/ \E id \in FirstVideo, c \in SomeContents :
          LoginRequired(Worker, Browser,
                        StartComment(Worker, session[Browser], id, "POST", c))
    \/ \E id \in FirstVideo :
          LoginRequired(Worker, Browser, StartSub(Worker, session[Browser], id))
    \/ \E id \in FirstVideo :
          LoginRequired(Worker, Browser, StartLike(Worker, session[Browser], id))
    \/ LoginRequired(Worker, Browser, CreatorDashboard(Worker, session[Browser]))
    \/ LoginRequired(Worker, Browser, LearnerDashboard(Worker, session[Browser]))
    \/ LoginRequired(Worker, Browser, DashboardRedirect(Worker, session[Browser]))
    \/ LoginRequired(Worker, Browser, UserProfile(Worker, session[Browser]))
    \/ LoginRequired(Worker, Browser, ApiUserStats(Worker, session[Browser]))
    \/ SaveCheck(Worker)
    \/ UploadInsert(Worker)
    \/ UploadPromote(Worker)
    \/ WatchSave(Worker)
    \/ SearchRender(Worker)
    \/ DeleteApply(Worker)
    \/ CommentSave(Worker)
    \/ SubQuery(Worker)
    \/ SubApply(Worker)
    \/ LikeQuery(Worker)
    \/ LikeApply(Worker)

GuardSpec == Init /\ [][GuardNext]_vars

\* Comments of every kind on the uploaded videos, and deletions, served one
\* at a time.
CommentNext ==
    \/ \E u \in Users, id \in VideoIds, m \in Methods, c \in Contents :
          StartComment(Worker, u, id, m, c)
    \/ \E u \in Users, id \in VideoIds : StartDelete(Worker, u, id)
    \/ CommentSave(Worker)
    \/ DeleteApply(Worker)

CommentSpec == FixtureInit /\ [][CommentNext]_vars

\* Uploads of every title, views and deletions, served one at a time.
SeqSlugNext ==
    \/ \E u \in Users, t \in Titles : StartUpload(Worker, u, t, GoodDescription)
    \/ \E u \in Users, id \in VideoIds : StartWatch(Worker, u, id)
    \/ \E u \in Users, id \in VideoIds : StartDelete(Worker, u, id)
    \/ SaveCheck(Worker)
    \/ UploadInsert(Worker)
    \/ WatchSave(Worker)
    \/ UploadPromote(Worker)
    \/ DeleteApply(Worker)

SeqSlugSpec == Init /\ [][SeqSlugNext]_vars

\* Likes and subscription toggles after uploads, served one at a time, each
\* toggle recorded with what it found.
SeqToggleNext ==
    \/ \E u \in Users, t \in OneTitle : StartUpload(Worker, u, t, GoodDescription)
    \/ \E u \in Users, id \in VideoIds : StartLike(Worker, u, id)
    \/ \E u \in Users, id \in VideoIds : StartSub(Worker, u, id)
    \/ SaveCheck(Worker)
    \/ UploadInsert(Worker)
    \/ UploadPromote(Worker)
    \/ LikeQuery(Worker)
    \/ LikeApplyRecorded(Worker)
    \/ SubQuery(Worker)
    \/ SubApplyRecorded(Worker)

SeqToggleSpec == Init /\ [][SeqToggleNext]_vars

\* Uploads, and views of the first video, served by concurrent workers;
\* nothing is deleted.
ViewRaceNext ==
    \E p \in Procs :
        \/ \E u \in Users, t \in OneTitle : StartUpload(p, u, t, GoodDescription)
        \/ \E u \in OneViewer, id \in FirstVideo : StartWatch(p, u, id)
        \/ SaveCheck(p)
        \/ UploadInsert(p)
        \/ UploadPromote(p)
        \/ WatchSave(p)

ViewRaceSpec == Init /\ [][ViewRaceNext]_vars

\* Likes of and subscription toggles through the first video, served by
\* concurrent workers; nothing is deleted.
ToggleRaceNext ==
    \E p \in Procs :
        \/ \E u \in Users, t \in OneTitle : StartUpload(p, u, t, GoodDescription)
        \/ \E u \in Users, id \in FirstVideo : StartLike(p, u, id)
        \/ \E u \in Users, id \in FirstVideo : StartSub(p, u, id)
        \/ SaveCheck(p)
        \/ UploadInsert(p)
        \/ UploadPromote(p)
        \/ LikeQuery(p)
        \/ LikeApply(p)
        \/ SubQuery(p)
        \/ SubApply(p)

ToggleRaceSpec == Init /\ [][ToggleRaceNext]_vars

\* The accounts as an administrator may have left them: CustomerUserAdmin
\* edits is_creator and is_student of any account.
FlagsInit ==
    \E c \in [Users -> BOOLEAN], st \in [Users -> BOOLEAN] :
        /\ is_creator = c
        /\ videos = {}
        /\ nextVideoId = 1
        /\ likes = {}
        /\ comments = {}
        /\ nextCommentId = 1
        /\ subs = {}
        /\ nextSubId = 1
        /\ legacy = {}
        /\ accounts = { [id |-> u, username |-> Username(u), password |-> Password(u),
                         is_student |-> st[u]] : u \in Users }
        /\ nextUserId = Cardinality(Users) + 1
        /\ session = [s \in Sessions |-> 0]
        /\ req = [p \in Procs |-> Idle("none")]
        /\ watched = [v \in VideoIds |-> 0]
        /\ lastLike = NoLike

\* One browser logs in and out and opens the dashboards; it follows every
\* redirect before it requests anything else.
DashNext ==
    \/ /\ ~ InRedirect(Worker)
       /\ \E u \in Users, pw \in Passwords :
             UserLogin(Worker, Browser, "POST", Username(u), pw)
    \/ /\ ~ InRedirect(Worker)
       /\ UserLogout(Worker, Browser)
    \/ /\ ~ InRedirect(Worker)
       /\ LoginRequired(Worker, Browser, DashboardRedirect(Worker, session[Browser]))
    \/ /\ ~ InRedirect(Worker)
       /\ LoginRequired(Worker, Browser, CreatorDashboard(Worker, session[Browser]))
    \/ /\ ~ InRedirect(Worker)
       /\ LoginRequired(Worker, Browser, LearnerDashboard(Worker, session[Browser]))
    \/ FollowRedirect(Worker, Browser)

\* A browser follows a redirect as soon as it receives one.
DashSpec ==
    FlagsInit /\ [][DashNext]_vars /\ WF_vars(FollowRedirect(Worker, Browser))

\* A comment that passes the form.
GoodContent == { [len |-> 5, pad |-> 0] }

\* Comments on, likes of, enrolments in, subscriptions through and deletions
\* of the first uploaded video, served by concurrent workers.
IntegrityNext ==
    \E p \in Procs :
        \/ \E u \in Users, id \in FirstVideo, c \in GoodContent :
              StartComment(p, u, id, "POST", c)
        \/ \E u \in Users, id \in FirstVideo : StartLike(p, u, id)
        \/ \E u \in Users, id \in FirstVideo : StartSub(p, u, id)
        \/ \E u \in Users, id \in FirstVideo : StartDelete(p, u, id)
        \/ \E u \in Users, id \in FirstVideo : AdminEnroll(u, id)
        \/ CommentSave(p)
        \/ LikeQuery(p)
        \/ LikeApply(p)
        \/ SubQuery(p)
        \/ SubApply(p)
        \/ DeleteApply(p)

IntegritySpec == FixtureInit /\ [][IntegrityNext]_vars

\* Likes of every uploaded video beside views of, comments on and
\* subscriptions through the first one, served one at a time; each like is
\* recorded with the likes it found.
LikeFrameNext ==
    \/ \E u \in Users, id \in VideoIds : StartLike(Worker, u, id)
    \/ \E u \in OneViewer, id \in FirstVideo : StartWatch(Worker, u, id)
    \/ \E u \in Users, id \in FirstVideo, c \in GoodContent :
          StartComment(Worker, u, id, "POST", c)
    \/ \E u \in Users, id \in FirstVideo : StartSub(Worker, u, id)
    \/ LikeQuery(Worker)
    \/ LikeApplyRecorded(Worker)
    \/ WatchSave(Worker)
    \/ CommentSave(Worker)
    \/ SubQuery(Worker)
    \/ SubApply(Worker)

LikeFrameSpec == FixtureInit /\ [][LikeFrameNext]_vars

\* The three API endpoints and the search beside uploads and views of the
\* first video, served one at a time.
ReadNext ==
    \/ \E u \in Users, t \in OneTitle : StartUpload(Worker, u, t, GoodDescription)
    \/ \E u \in OneViewer, id \in FirstVideo : StartWatch(Worker, u, id)
    \/ ApiVideosList(Worker)
    \/ \E id \in VideoIds : ApiVideoDetail(Worker, id)
    \/ \E u \in Users : ApiUserStats(Worker, u)
    \/ \E u \in OneViewer, q \in OneQuery : StartSearch(Worker, u, q)
    \/ SaveCheck(Worker)
    \/ UploadInsert(Worker)
    \/ UploadPromote(Worker)
    \/ WatchSave(Worker)
    \/ SearchRender(Worker)

ReadSpec == Init /\ [][ReadNext]_vars

(* ------------------------------- claims -------------------------------- *)
\* C1: in every reachable state no two stored videos have the same slug,
\* also when the "slug exists" checks and the INSERTs of two uploads interleave.
C1_SlugsPairwiseUnique ==
    \A v \in videos : \A w \in videos : v.id # w.id => v.slug # w.slug

\* C2: with requests served one after the other, every stored video's views
\* equal the number of watch_video requests completed on it: each request
\* adds exactly 1, starting from 0, whoever the viewers are.
C2_ViewsEqualCompletedWatches ==
    \A v \in videos : v.views = watched[v.id]

C2_ThreeWatchesCounted ==
    \E v \in videos : watched[v.id] = 3 /\ v.views = 3

\* C3: no step lowers the stored views of a video that exists before and
\* after the step, whatever the interleaving of watch_video requests.
C3_ViewsNeverDecrease ==
    [][\A v \in videos : \A w \in videos' : w.id = v.id => w.views >= v.views]_vars

\* C4: a like_video request served on its own removes the requester from the
\* video's likers when present and adds them otherwise; and when the previous
\* like_video request was by the same user on the same video, the likes are
\* again what they were before that previous request.
C4_LikeIsPresenceToggle ==
    [][LET r == req[Worker]
           mine == <<r.vid, r.user>>
       IN  (r.pc = "like_apply" /\ req'[Worker].pc = "idle") =>
             /\ likes' = IF mine \in likes THEN likes \ {mine} ELSE likes \cup {mine}
             /\ (lastLike.user = r.user /\ lastLike.vid = r.vid) =>
                    likes' = lastLike.before]_vars

C4_LikedThenUnliked ==
    /\ lastLike.user # 0
    /\ lastLike.before = {<<lastLike.vid, lastLike.user>>}
    /\ likes = {}
    /\ IsIdle(Worker)

\* C5: a toggle_subscription request by a user other than the video's
\* creator, served on its own, inserts the row (requester, creator) when
\* there is none and deletes it when there is one; every other
\* ChannelSubscription row stays as it was.
C5_ToggleCreatesOrDeletesOneRow ==
    [][LET r == req[Worker]
           mine == {x \in subs : x.subscriber = r.user /\ x.creator = r.row.creator}
       IN  (r.pc = "sub_apply" /\ req'[Worker].pc = "idle") =>
             IF mine = {}
             THEN \E x \in subs' :
                     /\ x \notin subs
                     /\ x.subscriber = r.user
                     /\ x.creator = r.row.creator
                     /\ subs' = subs \cup {x}
             ELSE subs' = subs \ mine]_vars

C5_UnsubscribedOtherRowKept ==
    /\ IsIdle(Worker)
    /\ nextSubId = 3
    /\ Cardinality(subs) = 1

\* C6: no step of a toggle_subscription request whose requester is the
\* video's creator changes the store, whatever rows exist; and no stored
\* ChannelSubscription row ever has subscriber = creator.
C6_NoSelfSubscription ==
    [][/\ \A x \in subs' : x.subscriber # x.creator
       /\ \A p \in Procs :
             (/\ req'[p] # req[p]
              /\ \/ req[p].op = "subscribe" /\ req[p].user = req[p].row.creator
                 \/ req'[p].op = "subscribe" /\ req'[p].user = req'[p].row.creator)
             => UNCHANGED store]_vars

C6_SelfSubscriptionRejected ==
    \E p \in Procs : req[p].out = "self_subscription" /\ subs # {}

\* C7: there is at most one ChannelSubscription row per (subscriber, creator)
\* pair in every state, also when two toggles of one subscriber interleave;
\* the INSERT of a second row for a stored pair ends in an integrity error
\* (a 500 response) and leaves the store unchanged.
C7_OneRowPerPair ==
    [][/\ \A x \in subs' : \A y \in subs' :
             (x.subscriber = y.subscriber /\ x.creator = y.creator) => x = y
       /\ \A p \in Procs :
             (/\ req[p].pc = "sub_apply"
              /\ req'[p] # req[p]
              /\ req[p].sub = 0
              /\ \E x \in subs : x.subscriber = req[p].user
                                 /\ x.creator = req[p].row.creator)
             => (req'[p].out = "500" /\ UNCHANGED store)]_vars

C7_SecondInsertRefused ==
    \E p \in Procs : req[p].out = "500" /\ Cardinality(subs) = 1

\* C8: a delete_video request by a user who is not the video's creator ends
\* with the permission message and no step of it changes the store.
C8_NonCreatorDeleteChangesNothing ==
    [][\A p \in Procs : \A u \in Users : \A id \in VideoIds :
          (/\ IsIdle(p)
           /\ VideoExists(id)
           /\ u # VideoById(id).creator
           /\ StartDelete(p, u, id))
          => (req'[p].pc = "idle" /\ req'[p].out = "denied" /\ UNCHANGED store)]_vars

C8_DeniedWithLikesAndComments ==
    \E p \in Procs : req[p].out = "denied" /\ likes # {} /\ comments # {}

\* C9: the delete step of a delete_video request by the creator removes
\* exactly that video, its comments, its likes and its legacy enrolments;
\* other videos, their dependants, the users and every ChannelSubscription
\* row stay as they were.
C9_CreatorDeleteCascades ==
    [][\A p \in Procs :
          (req[p].pc = "delete" /\ req'[p] # req[p]) =>
             /\ videos' = {v \in videos : v.id # req[p].vid}
             /\ comments' = {c \in comments : c.video # req[p].vid}
             /\ likes' = {l \in likes : l[1] # req[p].vid}
             /\ legacy' = {e \in legacy : e.video # req[p].vid}
             /\ UNCHANGED <<is_creator, subs, nextSubId>>]_vars

C9_CommentCascadedOthersKept ==
    /\ req[Worker].out = "redirect"
    /\ Cardinality(videos) = MaxVideos - 1
    /\ nextCommentId = 2
    /\ comments = {}
    /\ likes # {}

\* C10: a search_videos response to an empty or missing q reports
\* results_count = 0 and lists no video, whatever is stored.
C10_EmptyQueryNoResults ==
    \A p \in Procs :
        (req[p].out = "search_results.html" /\ req[p].orig = EmptyText)
        => (req[p].counter = 0 /\ req[p].results = << >>)

\* C11: a search_videos response to a non-empty q lists exactly the stored
\* videos that have q, letter case ignored, as a substring of the title, of
\* the description or of the creator's username, latest upload first, and
\* results_count is their number.
C11_SearchListsMatchesNewestFirst ==
    \A p \in Procs :
        (req[p].out = "search_results.html" /\ req[p].orig # EmptyText) =>
            LET q == req[p].orig
                r == req[p].results
                Fold(t) == [j \in 1..Len(t) |-> Lower(t[j])]
                Has(h) == \E i \in 1..Len(h) :
                             /\ i + Len(q) - 1 <= Len(h)
                             /\ SubSeq(Fold(h), i, i + Len(q) - 1) = Fold(q)
                hits == {v \in videos : \/ Has(v.title)
                                         \/ Has(v.description)
                                         \/ Has(Username(v.creator))}
            IN  /\ {r[i] : i \in 1..Len(r)} = {v.id : v \in hits}
                /\ Len(r) = Cardinality(hits)
                /\ \A i \in 1..Len(r) : \A j \in 1..Len(r) :
                       i < j => VideoById(r[i]).uploaded_at > VideoById(r[j]).uploaded_at
                /\ req[p].counter = Cardinality(hits)

C11_TitleHitAmongTwoVideos ==
    \E p \in Procs :
        /\ req[p].out = "search_results.html"
        /\ req[p].orig = <<"-">>
        /\ Len(req[p].results) = 1
        /\ Cardinality(videos) = 2

\* C12: the INSERT of an upload_video request adds exactly one video, owned
\* by the requester, with views = 0 and no likes; when the request ends with
\* its redirect the requester is a creator; and no step of any request,
\* deletions included, turns is_creator from true to false.
C12_UploadOwnedByRequesterCreatorForGood ==
    [][/\ \A u \in Users : is_creator[u] => is_creator'[u]
       /\ \A p \in Procs :
             (req[p].op = "upload" /\ req[p].pc = "save_write" /\ req'[p] # req[p])
             => \E v \in videos' :
                   /\ \A w \in videos : w.id # v.id
                   /\ videos' = videos \cup {v}
                   /\ v.creator = req[p].user
                   /\ v.views = 0
                   /\ \A l \in likes' : l[1] # v.id
       /\ \A p \in Procs :
             (req[p].op = "upload" /\ req'[p].pc = "idle" /\ req'[p].out = "redirect")
             => is_creator'[req[p].user]]_vars

C12_CreatorWithoutVideos ==
    \E u \in Users :
        /\ is_creator[u]
        /\ \A v \in videos : v.creator # u
        /\ likes # {}
        /\ nextVideoId = 3

\* C13: a register request with two different passwords, or with a username
\* an account already has, ends at once and changes neither the store nor any
\* session; a POST with matching passwords and a username nobody has goes on
\* to the INSERT; and a register request that ends with the redirect to login
\* has added exactly one account, with is_student true and is_creator false,
\* and has logged nobody in.
C13_RegisterCreatesOneStudentNoLogin ==
    [][\A p \in Procs :
         /\ \A s \in Sessions, m \in Methods, n \in Names, pw1 \in Passwords,
               pw2 \in Passwords :
               (IsIdle(p) /\ StartRegister(p, s, m, n, pw1, pw2)) =>
                  /\ (pw1 # pw2 \/ \E a \in accounts : a.username = n)
                        => (req'[p].pc = "idle" /\ UNCHANGED <<store, session>>)
                  /\ (/\ m = "POST"
                      /\ pw1 = pw2
                      /\ \A a \in accounts :
                            Len(a.username) = Len(n) =>
                               \E j \in 1..Len(n) : Lower(a.username[j]) # Lower(n[j]))
                        => req'[p].pc = "register_save"
         /\ (req[p].pc = "register_save" /\ req'[p] # req[p]) =>
               /\ req'[p].out = "redirect_login"
               /\ \E a \in accounts' :
                     /\ \A b \in accounts : b.id # a.id /\ b.username # a.username
                     /\ accounts' = accounts \cup {a}
                     /\ a.username = req[p].orig
                     /\ a.is_student
                     /\ ~ is_creator'[a.id]
                     /\ \A u \in DOMAIN is_creator : is_creator'[u] = is_creator[u]
                     /\ \A s \in Sessions : session'[s] = session[s] /\ session'[s] # a.id
               /\ UNCHANGED <<videos, likes, comments, subs, legacy>>]_vars

C13_ThirdAccountNobodyLoggedIn ==
    /\ req[Worker].out = "redirect_login"
    /\ Cardinality(accounts) = 3
    /\ \E a \in accounts : a.id = 3 /\ a.is_student /\ ~ is_creator[3]
    /\ \A s \in Sessions : session[s] = 0

\* C14: a user_login POST fails in the same way whether no account has the
\* username or an account has it and the password is wrong: the login page
\* with the one "incorrect" message, every session and the store as before.
C14_LoginFailureHidesTheCause ==
    [][\A p \in Procs : \A s \in Sessions, n \in Names, pw \in Passwords :
          (/\ IsIdle(p)
           /\ UserLogin(p, s, "POST", n, pw)
           /\ \/ \A a \in accounts : LowerText(a.username) # LowerText(n)
              \/ \E a \in accounts : a.username = n /\ a.password # pw)
          => (/\ req'[p] = Idle("login.html:incorrect")
              /\ UNCHANGED <<store, session>>)]_vars

C14_FailedLoginBesideALogin ==
    /\ req[Worker].out = "login.html:incorrect"
    /\ session[1] = 0
    /\ session[2] # 0

\* C15: while the browser session is unauthenticated (never logged in, or
\* logged out) no step changes the store, no view is counted, and every
\* request ends at once: a login-required handler with the redirect to the
\* login page, login and logout with their own responses.
C15_AnonymousRequestsChangeNothing ==
    [][session[Browser] = 0 =>
         /\ UNCHANGED <<store, watched>>
         /\ req'[Worker] # req[Worker] =>
               /\ req'[Worker].pc = "idle"
               /\ IF session'[Browser] # 0
                  THEN req'[Worker].out = "redirect_dashboard"
                  ELSE req'[Worker].out \in {"redirect_login?next", "redirect_login",
                                             "login.html", "login.html:incorrect"}]_vars

C15_RedirectedAfterLogout ==
    /\ session[Browser] = 0
    /\ req[Worker].out = "redirect_login?next"
    /\ watched[1] > 0
    /\ likes # {}
    /\ comments # {}

\* C16: a user_comment POST on a stored video whose content, stripped, is
\* not empty and at most 1000 characters long adds exactly one comment, by
\* the requester on that video; a GET, or a POST with empty, whitespace-only
\* or longer content, ends at once and changes nothing.
C16_CommentOnlyFromValidPost ==
    [][\A p \in Procs :
         /\ (IsIdle(p) /\ req'[p] # req[p] /\ req'[p].op \in {"none", "comment"}) =>
             \A u \in Users, id \in VideoIds, m \in Methods, c \in Contents :
               (StartComment(p, u, id, m, c) /\ VideoExists(id)) =>
                  IF m = "POST" /\ c.len > c.pad /\ c.len - c.pad <= 1000
                  THEN /\ req'[p].pc = "comment"
                       /\ req'[p].user = u
                       /\ req'[p].vid = id
                  ELSE /\ req'[p].pc = "idle"
                       /\ UNCHANGED store
         /\ (req[p].pc = "comment" /\ req'[p] # req[p]) =>
               /\ \E c \in comments' :
                     /\ c \notin comments
                     /\ comments' = comments \cup {c}
                     /\ c.user = req[p].user
                     /\ c.video = req[p].vid
               /\ UNCHANGED <<is_creator, videos, likes, subs, legacy, accounts>>]_vars

C16_CommentByAnotherUser ==
    /\ req[Worker].out = "redirect"
    /\ nextCommentId = 2
    /\ \E c \in comments : \E v \in videos : c.video = v.id /\ c.user # v.creator

C18_DetailOrStructured404 ==
    [][\A p \in Procs : \A id \in VideoIds :
          (IsIdle(p) /\ ApiVideoDetail(p, id)) =>
             /\ UNCHANGED store
             /\ IF \E v \in videos : v.id = id
                THEN LET v == CHOOSE w \in videos : w.id = id
                         b == req'[p].body
                     IN  /\ req'[p].out = "api_video_detail:200"
                         /\ b.success
                         /\ b.title = v.title
                         /\ b.views = v.views
                         /\ b.likes = Cardinality({u \in Users : <<id, u>> \in likes})
                         /\ b.creator = [id |-> v.creator,
                                         username |-> Username(v.creator),
                                         is_creator |-> is_creator[v.creator]]
                ELSE /\ req'[p].out = "api_video_detail:404"
                     /\ req'[p].body = [success |-> FALSE, error |-> "Video not found"]]_vars

C18_DetailOfWatchedLikedVideo ==
    /\ req[Worker].out = "api_video_detail:200"
    /\ req[Worker].body.likes = 1
    /\ req[Worker].body.views = 2
    /\ Cardinality(likes) = 2

\* C19: api_user_stats reports the number of stored videos of the user, the
\* sum of their views, the number of ChannelSubscription rows with the user as
\* subscriber and the number of the user's comments, and has
\* subscribers_count, the number of rows with the user as creator, exactly
\* when the user's is_creator is true.
C19_StatsCountTheStore ==
    [][\A p \in Procs : \A u \in Users :
          (IsIdle(p) /\ req'[p].pc = "idle" /\ ApiUserStats(p, u)) =>
             LET b == req'[p].body
                 mine == {v \in videos : v.creator = u}
             IN  /\ req'[p].out = "api_user_stats:200"
                 /\ b.uploaded_videos_count = Cardinality(mine)
                 /\ b.total_views =
                       Cardinality(UNION {{<<v.id, k>> : k \in 1..v.views} : v \in mine})
                 /\ b.subscriptions_count = Cardinality({r \in subs : r.subscriber = u})
                 /\ b.comments_count = Cardinality({c \in comments : c.user = u})
                 /\ ("subscribers_count" \in DOMAIN b) = is_creator[u]
                 /\ is_creator[u] =>
                       b.subscribers_count = Cardinality({r \in subs : r.creator = u})]_vars

C19_CreatorStatsWithSubscriber ==
    /\ req[Worker].out = "api_user_stats:200"
    /\ req[Worker].body.uploaded_videos_count = 2
    /\ req[Worker].body.total_views = 3
    /\ req[Worker].body.comments_count = 1
    /\ "subscribers_count" \in DOMAIN req[Worker].body
    /\ req[Worker].body.subscribers_count = 1

\* C20: with requests served one at a time, the write of a video that had no
\* slug (a new upload, or a stored video whose slug is empty) stores
\* slugify(title) when no stored video has that slug, and otherwise
\* slugify(title)-n for the smallest n >= 1 such that no stored video has
\* slugify(title)-n.
C20_SlugIsBaseOrSmallestFreeSuffix ==
    [][\A p \in Procs :
          (/\ req[p].pc = "save_write"
           /\ req'[p] # req[p]
           /\ \/ req[p].op = "upload"
              \/ \E v \in videos : v.id = req[p].vid /\ v.slug = EmptyText)
          => LET id == IF req[p].op = "upload" THEN nextVideoId ELSE req[p].vid
                 written == CHOOSE v \in videos' : v.id = id
                 base == Slugify(written.title)
                 taken(sl) == \E v \in videos : v.slug = sl
                 nth(n) == base \o <<"-", Digit(n)>>
             IN  /\ \E v \in videos' : v.id = id
                 /\ IF ~ taken(base)
                    THEN written.slug = base
                    ELSE \E n \in 1..(Cardinality(videos) + 1) :
                            /\ written.slug = nth(n)
                            /\ ~ taken(nth(n))
                            /\ \A m \in 1..(n - 1) : taken(nth(m))]_vars

C20_SecondSuffixAfterFirst ==
    /\ IsIdle(Worker)
    /\ \E v \in videos : \E w \in videos :
          /\ v.title = w.title
          /\ w.slug = Slugify(w.title) \o <<"-", "1">>
          /\ v.slug = Slugify(v.title) \o <<"-", "2">>

\* C21 (as the code has it): a like_video request that follows a like_video
\* request by the same user on the same video, and a toggle_subscription
\* request that follows one by the same user through the same video, with no
\* other toggle between them, puts the membership back to what it was before
\* the first of the two, which is not what it was after the first: the
\* actions are toggles, their own inverses, and not idempotent.
C21_TwiceRestoresTheStart ==
    [][LET r == req[Worker]
           same == lastLike.user = r.user /\ lastLike.vid = r.vid
           pairs == {<<x.subscriber, x.creator>> : x \in subs}
           pairsAfter == {<<x.subscriber, x.creator>> : x \in subs'}
       IN  /\ (r.pc = "like_apply" /\ req'[Worker].pc = "idle"
                 /\ lastLike.op = "like" /\ same)
               => (likes' = lastLike.before /\ likes' # likes)
           /\ (r.pc = "sub_apply" /\ req'[Worker].pc = "idle"
                 /\ lastLike.op = "subscribe" /\ same)
               => (pairsAfter = lastLike.before /\ pairsAfter # pairs)]_vars

C21_SubscribedThenUnsubscribed ==
    /\ IsIdle(Worker)
    /\ lastLike.op = "subscribe"
    /\ lastLike.before # {}
    /\ lastLike.before = {<<lastLike.user, VideoById(lastLike.vid).creator>>}
    /\ subs = {}
    /\ nextSubId = 2
    /\ likes # {}

\* C21 as stated: the second of two such requests leaves the membership as
\* the first left it.
C21_TwiceSameAsOnce ==
    [][LET r == req[Worker]
           same == lastLike.user = r.user /\ lastLike.vid = r.vid
       IN  /\ (r.pc = "like_apply" /\ req'[Worker].pc = "idle"
                 /\ lastLike.op = "like" /\ same)
               => likes' = likes
           /\ (r.pc = "sub_apply" /\ req'[Worker].pc = "idle"
                 /\ lastLike.op = "subscribe" /\ same)
               => {<<x.subscriber, x.creator>> : x \in subs'}
                     = {<<x.subscriber, x.creator>> : x \in subs}]_vars

\* C22: the write of a watch_video request stores the views it read at its
\* start plus one, whatever has been stored since, so the stored views never
\* exceed the completed requests and can fall short of them: two requests
\* that both read before either writes both complete and the stored views
\* have risen by 1 only.
C22_WriteStoresWhatItRead ==
    [][\A p \in Procs :
          (req[p].op = "watch" /\ req[p].pc = "save_write" /\ req'[p] # req[p]) =>
             /\ \E v \in videos' : v.id = req[p].vid /\ v.views = req[p].row.views
             /\ \A v \in videos' : v.views <= watched'[v.id]
             /\ \A q \in Procs :
                   (/\ q # p
                    /\ req[q].op = "watch"
                    /\ req[q].vid = req[p].vid
                    /\ req[q].row.views = req[p].row.views)
                   => \A v \in videos' :
                         v.id = req[p].vid => v.views = req'[q].row.views]_vars

C22_BothCompletedOneCounted ==
    /\ \A p \in Procs : IsIdle(p) /\ req[p].out = "watch_video.html"
    /\ \E v \in videos : watched[v.id] = 2 /\ v.views = 1

\* C23: when like_video requests, or toggle_subscription requests, of one
\* user on one video overlap, the write step of each ends the request with
\* its redirect, never with a server error, and the user's membership after
\* the step is the one that step wrote: a member after an add or a create,
\* not a member after a remove or a delete.
C23_OverlappingTogglesLastWriteWins ==
    [][\A p \in Procs :
         /\ (req[p].pc = "like_apply" /\ req'[p] # req[p]) =>
               /\ req'[p].out = "redirect"
               /\ (<<req[p].vid, req[p].user>> \in likes') = ~ req[p].liked
         /\ (req[p].pc = "sub_apply" /\ req'[p] # req[p]) =>
               /\ req'[p].out = "redirect"
               /\ (\E x \in subs' : /\ x.subscriber = req[p].user
                                    /\ x.creator = req[p].row.creator)
                     = (req[p].sub = 0)]_vars

\* C24: no step changes the slug of a stored video: a video stored before and
\* after a step has the same slug, whatever its title, also across the
\* re-save of every watch_video request.
C24_StoredSlugNeverChanges ==
    [][\A v \in videos : \A w \in videos' : w.id = v.id => w.slug = v.slug]_vars

\* C25: a deleted video never comes back.  Ids are drawn from the sequence
\* and only delete_video removes a row, so a missing id below nextVideoId is
\* the id of a deleted video: no step stores a video under such an id, in
\* particular not the save of a watch_video request that loaded the video
\* before it was deleted.
C25_DeletedVideoStaysDeleted ==
    [][\A w \in videos' :
          w.id < nextVideoId => \E v \in videos : v.id = w.id]_vars

\* C26: whatever is_creator and is_student of the authenticated user are,
\* whenever a dashboard handler has answered with a redirect, following the
\* redirects leads to a rendered page.
C26_DashboardRedirectsReachAPage ==
    [](( /\ session[Browser] # 0
         /\ req[Worker].out \in {"redirect_dashboard", "redirect_creator_dashboard",
                                 "redirect_learner_dashboard", "redirect_home"} )
       => <>(req[Worker].out \in {"creator_dashboard.html", "learner_dashboard.html",
                                  "home.html"}))

\* C27: a user_login POST with the username and the password of a stored
\* account, typed as they were registered, capital letters included, logs
\* the session in as that account.
C27_RegisteredCredentialsLogIn ==
    [][\A p \in Procs : \A s \in Sessions, n \in Names, pw \in Passwords :
          (/\ IsIdle(p)
           /\ \E a \in accounts : a.username = n /\ a.password = pw
           /\ UserLogin(p, s, "POST", n, pw))
          => \E a \in accounts :
                /\ a.username = n
                /\ a.password = pw
                /\ session'[s] = a.id
                /\ req'[p].out = "redirect_dashboard"]_vars

C29_LikeTouchesOneMembership ==
    [][\A p \in Procs :
          (req'[p] # req[p] /\ (req[p].op = "like" \/ req'[p].op = "like")) =>
             LET r == IF req[p].op = "like" THEN req[p] ELSE req'[p]
                 mine == <<r.vid, r.user>>
             IN  /\ \A l \in likes \cup likes' :
                       l # mine => (l \in likes <=> l \in likes')
                 /\ UNCHANGED <<videos, comments, subs, legacy, is_creator, accounts>>]_vars

C29_LikedBesideAnotherLike ==
    /\ IsIdle(Worker)
    /\ lastLike.op = "like"
    /\ Cardinality(lastLike.before) = 1
    /\ likes = lastLike.before \cup {<<lastLike.vid, lastLike.user>>}
    /\ Cardinality(likes) = 2
    /\ \E v \in videos : v.views > 0

\* C30: a step that ends in a response of api_videos_list, api_video_detail
\* or api_user_stats, and every step of a search_videos request, leaves the
\* store unchanged; the views of a stored video change only in the write of a
\* watch_video request.
C30_ReadersLeaveTheStore ==
    [][/\ \A p \in Procs :
             (/\ req'[p] # req[p]
              /\ \/ req'[p].out \in {"api_videos_list:200", "api_video_detail:200",
                                     "api_video_detail:404", "api_user_stats:200",
                                     "search_results.html"}
                 \/ req'[p].op = "search")
             => UNCHANGED <<store, watched>>
       /\ \A v \in videos : \A w \in videos' :
             (w.id = v.id /\ w.views # v.views)
             => \E p \in Procs : /\ req[p].op = "watch"
                                 /\ req[p].pc = "save_write"
                                 /\ req'[p].out = "watch_video.html"]_vars

C30_DetailAfterViewsShowsThemUncounted ==
    /\ req[Worker].out = "api_video_detail:200"
    /\ req[Worker].body.id = 1
    /\ watched[1] = 2
    /\ req[Worker].body.views = watched[1]
    /\ \E v \in videos : v.id = 1 /\ v.views = watched[1]

====
